---- MODULE Spec2Model ----
(***************************************************************************)
(* Model of markdownlib: the block scanner `parse` with its heading        *)
(* recognizer `parse_heading` (markdown_parser.rs), the data model         *)
(* constructors (model/*.rs) and the inline scanner `parse_inlines`        *)
(* (model/inline.rs).                                                      *)
(*                                                                         *)
(* A Rust `char` is a one-character string; a Rust `String`/`&str` value   *)
(* is the sequence of its UTF-8 bytes (Utf8).  The paragraph buffers of    *)
(* `parse` hold the input positions of the characters pushed into them, so *)
(* that the provenance of every character of every block is known; the     *)
(* characters themselves are CharsAt(input, positions).                    *)
(***************************************************************************)
EXTENDS Integers, Sequences, FiniteSets, TLC

VARIABLES
    input,                          \* the characters of the input text
    pos,                            \* characters consumed from `characters`
    state,                          \* ParseState
    doc,                            \* Document.blocks
    line_number,
    paragraph_text,                 \* input positions of the buffered chars
    paragraph_end_candidate_text,   \* input positions of the held chars
    result,                         \* "idle", "running", "Ok", "Err", "panic"
    error,                          \* <<>> or <<MarkdownParseError>>
    i,                              \* parse_inlines: byte index
    out,                            \* parse_inlines: emitted inlines
    starts,                         \* parse_inlines: value of i at each push
    istate,                         \* "idle", "scan", "done", "panic"
    api,                            \* the entry point in use
    arg,                            \* arguments of a constructor call
    ret,                            \* <<>> or <<value returned by the call>>
    pushed                          \* blocks handed to Document::push, in order

parse_vars == <<pos, state, doc, line_number, paragraph_text,
                paragraph_end_candidate_text, result, error>>
inline_vars == <<i, out, starts, istate>>
api_vars == <<api, arg, ret, pushed>>
vars == <<input, pos, state, doc, line_number, paragraph_text,
          paragraph_end_candidate_text, result, error, i, out, starts, istate,
          api, arg, ret, pushed>>

(***************************************************************************)
(* Characters and bounds                                                   *)
(***************************************************************************)
NL == "\n"
HASH == "#"
MULTI == "U+00E9"                        \* a character encoded in two bytes

MaxPieces == 5                      \* pieces per input of parse
MaxInlinePieces == 4                \* pieces per input of parse_inlines

MinLevel == 1
MaxLevel == 6
U8Mod == 256                        \* u8 arithmetic wraps modulo 2^8

Rep(c, n) == [k \in 1..n |-> c]

\* concatenation of a sequence of sequences
RECURSIVE Concat(_)
Concat(ss) == IF ss = <<>> THEN <<>> ELSE Head(ss) \o Concat(Tail(ss))

\* the texts made of at most n pieces
UpTo(pieces, n) == {Concat(f) : f \in UNION {[1..k -> pieces] : k \in 0..n}}

\* Inputs of parse: text, blanks, line breaks, '#', a run of seven '#',
\* a complete link, and '#' runs around the u8 limit.
Pieces ==
    {<<"a">>, <<" ">>, <<NL>>, <<HASH>>, Rep(HASH, MaxLevel + 1),
     <<"[", "a", "]", "(", "a", ")">>}

LongRuns ==
    {Rep(HASH, n) \o t :
        n \in {U8Mod - 1, U8Mod, U8Mod + 1, U8Mod + MaxLevel, U8Mod + MaxLevel + 1},
        t \in {<<>>, <<" ", "a">>}}

Inputs(n) == UpTo(Pieces, n) \cup LongRuns

\* Inputs of parse_inlines: text, a two-byte character, every delimiter,
\* the head of a link up to its destination, and a quoted title.
InlinePieces ==
    {<<"a">>, <<MULTI>>, <<"!">>, <<"[">>, <<"]">>, <<"(">>, <<")">>,
     <<" ">>, <<"\"">>,
     <<"[", "a", "]", "(", "a">>,
     <<" ", "\"", "a", "\"">>}

InlineInputs(n) == UpTo(InlinePieces, n)

(***************************************************************************)
(* char and str helpers                                                    *)
(***************************************************************************)
\* char::is_whitespace, on the characters of the model
IsWhitespace(c) == c \in {" ", NL}

CharsAt(s, ps) == [k \in 1..Len(ps) |-> s[ps[k]]]

\* str::as_bytes / String::push(char): UTF-8 encoding
RECURSIVE Utf8(_)
Utf8(cs) ==
    IF cs = <<>> THEN <<>>
    ELSE IF Len(cs) = 1
    THEN (IF cs[1] = MULTI THEN <<"C3", "A9">> ELSE cs)
    ELSE LET h == Len(cs) \div 2
         IN Utf8(SubSeq(cs, 1, h)) \o Utf8(SubSeq(cs, h + 1, Len(cs)))

IsContinuation(b) == b = "A9"

\* str::trim_start, str::trim_end, str::trim on a character sequence
RECURSIVE TrimStart(_)
TrimStart(cs) ==
    IF cs # <<>> /\ IsWhitespace(Head(cs)) THEN TrimStart(Tail(cs)) ELSE cs

RECURSIVE TrimEnd(_)
TrimEnd(cs) ==
    IF cs # <<>> /\ IsWhitespace(cs[Len(cs)])
    THEN TrimEnd(SubSeq(cs, 1, Len(cs) - 1)) ELSE cs

Trim(cs) == TrimEnd(TrimStart(cs))

(***************************************************************************)
(* model/heading.rs, model/inline.rs, model/paragraph.rs, model/block.rs   *)
(***************************************************************************)
\* Heading::new with an exclusive upper end of the range (1..6 for 1..=6)
HeadingNewExclusive(level, text) ==
    IF level >= MinLevel /\ level < MaxLevel
    THEN [ok |-> TRUE, level |-> level, text |-> text]
    ELSE [ok |-> FALSE, level |-> level, text |-> <<>>]

\* a level outside the range is clamped into it
HeadingNewClamp(level, text) ==
    [ok |-> TRUE,
     level |-> IF level < MinLevel THEN MinLevel
               ELSE IF level > MaxLevel THEN MaxLevel ELSE level,
     text |-> text]

\* Heading::new: Ok(Heading) or Err(HeadingLevelError(lvl))
HeadingNew(level, text) ==
    IF level >= MinLevel /\ level <= MaxLevel
    THEN [ok |-> TRUE, level |-> level, text |-> text]
    ELSE [ok |-> FALSE, level |-> level, text |-> <<>>]

\* Inline::Text(String)
InlineText(t) == [kind |-> "Text", text |-> t]

\* Block::Paragraph(Paragraph { inlines: vec![Inline::Text(text)] });
\* src: the input positions the text was accumulated from
ParagraphBlock(s, ps) ==
    [kind |-> "Paragraph",
     inlines |-> <<InlineText(Utf8(CharsAt(s, ps)))>>,
     src |-> ps]

\* Block::Heading(heading); src: the cursor before and after parse_heading
HeadingBlock(h, from, to) ==
    [kind |-> "Heading", level |-> h.level, text |-> h.text,
     src |-> [start |-> from, stop |-> to]]

\* the new block is placed in front
PushFront(d, b) == <<b>> \o d

\* Document::push
Push(d, b) == Append(d, b)

(***************************************************************************)
(* parse_inlines (model/inline.rs).  b is input.as_bytes(), indices are    *)
(* 0-based byte indices as in the code: bytes[k] is b[k + 1].              *)
(***************************************************************************)
None == <<>>
Some(x) == <<x>>

\* str::is_char_boundary
IsCharBoundary(b, k) ==
    \/ k = 0
    \/ k = Len(b)
    \/ k > 0 /\ k < Len(b) /\ ~IsContinuation(b[k + 1])

\* &input[from..to] is defined only between character boundaries
SliceOk(b, from, to) ==
    from <= to /\ to <= Len(b) /\ IsCharBoundary(b, from) /\ IsCharBoundary(b, to)

Slice(b, from, to) == SubSeq(b, from + 1, to)

\* the search returns the last occurrence instead of the first
FindLast(b, from, set) ==
    LET hits == {k \in from..(Len(b) - 1) : b[k + 1] \in set}
    IN IF hits = {} THEN -1
       ELSE (CHOOSE k \in hits : \A j \in hits : k >= j) - from

\* input[from..].find(pattern): index relative to `from` of the first byte
\* in `set`, or -1 for None
Find(b, from, set) ==
    LET hits == {k \in from..(Len(b) - 1) : b[k + 1] \in set}
    IN IF hits = {} THEN -1
       ELSE (CHOOSE k \in hits : \A j \in hits : k <= j) - from

\* the title keeps its surrounding quotes
UrlTitleKeepQuotes(inside) ==
    LET space_pos == Find(inside, 0, {" "})
        u == Slice(inside, 0, space_pos)
        rest == TrimStart(Slice(inside, space_pos, Len(inside)))
        quoted == /\ rest # <<>>
                  /\ rest[1] = "\""
                  /\ rest[Len(rest)] = "\""
                  /\ Len(rest) >= 2
    IN IF space_pos >= 0
       THEN [url |-> u,
             title |-> IF quoted THEN Some(rest) ELSE None,
             panic |-> FALSE]
       ELSE [url |-> inside, title |-> None, panic |-> FALSE]

\* without a quoted title the whole content is kept as the url
UrlTitleWholeContent(inside) ==
    LET space_pos == Find(inside, 0, {" "})
        u == Slice(inside, 0, space_pos)
        rest == TrimStart(Slice(inside, space_pos, Len(inside)))
        quoted == /\ rest # <<>>
                  /\ rest[1] = "\""
                  /\ rest[Len(rest)] = "\""
                  /\ Len(rest) >= 2
    IN IF space_pos >= 0
       THEN [url |-> IF quoted THEN u ELSE inside,
             title |-> IF quoted THEN Some(Slice(rest, 1, Len(rest) - 1)) ELSE None,
             panic |-> quoted /\ ~SliceOk(rest, 1, Len(rest) - 1)]
       ELSE [url |-> inside, title |-> None, panic |-> FALSE]

\* lines 40-54: (url, title) of the parenthesized content
UrlTitle(inside) ==
    LET space_pos == Find(inside, 0, {" "})
        u == Slice(inside, 0, space_pos)
        rest == TrimStart(Slice(inside, space_pos, Len(inside)))
        quoted == /\ rest # <<>>
                  /\ rest[1] = "\""
                  /\ rest[Len(rest)] = "\""
                  /\ Len(rest) >= 2
    IN IF space_pos >= 0
       THEN [url |-> u,
             title |-> IF quoted THEN Some(Slice(rest, 1, Len(rest) - 1)) ELSE None,
             panic |-> quoted /\ ~SliceOk(rest, 1, Len(rest) - 1)]
       ELSE [url |-> inside, title |-> None, panic |-> FALSE]

InlineLink(label, url, title) ==
    [kind |-> "Link", text |-> <<InlineText(label)>>, url |-> url, title |-> title]

InlineImage(label, url, title) ==
    [kind |-> "Image", alt |-> <<InlineText(label)>>, url |-> url, title |-> title]

\* scanning resumes at the closing ')' itself
ResumeAtParen(paren_close) == paren_close

\* line 69: scanning resumes right after the closing ')'
Resume(paren_close) == paren_close + 1

\* One iteration of `while i < bytes.len()` (lines 29-81) at index at < Len(b):
\* the element pushed and the next value of i, or a panic of a slice.
InlineIter(b, at) ==
    LET is_image == b[at + 1] = "!"
        start_bracket == IF is_image THEN at + 1 ELSE at
        opener == /\ b[at + 1] \in {"!", "["}
                  /\ start_bracket < Len(b)
                  /\ b[start_bracket + 1] = "["
        closing == Find(b, start_bracket + 1, {"]"})
        closing_idx == start_bracket + 1 + closing
        paren == /\ opener
                 /\ closing >= 0
                 /\ closing_idx + 1 < Len(b)
                 /\ b[closing_idx + 2] = "("
        paren_close_rel == Find(b, closing_idx + 2, {")"})
        paren_close == closing_idx + 2 + paren_close_rel
        matched == paren /\ paren_close_rel >= 0
        alt_or_text == Slice(b, start_bracket + 1, closing_idx)
        ut == UrlTitle(Slice(b, closing_idx + 2, paren_close))
        next_rel == Find(b, at + 1, {"!", "["})
        next_special == IF next_rel >= 0 THEN at + 1 + next_rel ELSE Len(b)
        panics ==
            \/ opener /\ ~SliceOk(b, start_bracket + 1, Len(b))
            \/ paren /\ ~SliceOk(b, closing_idx + 2, Len(b))
            \/ matched /\ ~SliceOk(b, start_bracket + 1, closing_idx)
            \/ matched /\ ~SliceOk(b, closing_idx + 2, paren_close)
            \/ matched /\ ut.panic
            \/ ~matched /\ ~SliceOk(b, at + 1, Len(b))
            \/ ~matched /\ ~SliceOk(b, at, next_special)
    IN IF panics THEN [panic |-> TRUE, elem |-> InlineText(<<>>), next |-> at]
       ELSE IF matched
       THEN [panic |-> FALSE,
             elem |-> IF is_image
                      THEN InlineImage(alt_or_text, ut.url, ut.title)
                      ELSE InlineLink(alt_or_text, ut.url, ut.title),
             next |-> Resume(paren_close)]
       ELSE [panic |-> FALSE,
             elem |-> InlineText(Slice(b, at, next_special)),
             next |-> next_special]

\* parse_inlines(input) as a function of its argument
RECURSIVE ParseInlinesFrom(_, _, _)
ParseInlinesFrom(b, at, acc) ==
    IF at >= Len(b) THEN [panic |-> FALSE, out |-> acc]
    ELSE LET r == InlineIter(b, at)
         IN IF r.panic THEN [panic |-> TRUE, out |-> acc]
            ELSE ParseInlinesFrom(b, r.next, Append(acc, r.elem))

parse_inlines(b) == ParseInlinesFrom(b, 0, <<>>)

(***************************************************************************)
(* parse_heading                                                           *)
(***************************************************************************)
\* First cursor position k >= p at which the next character is not in `cs`
\* (or the input is exhausted).
ScanWhile(s, p, cs) ==
    CHOOSE k \in p..Len(s) :
        /\ k = Len(s) \/ s[k + 1] \notin cs
        /\ \A j \in p..(k - 1) : s[j + 1] \in cs

\* while let Some('#') = characters.next() { level += 1; }
\* next() consumes the character it looks at, also the one that ends the run.
\* level is a u8: n increments from 0 leave n % 2^8 and overflow once n >= 2^8.
CountLevel(s, p) ==
    LET k == ScanWhile(s, p, {HASH})
        n == k - p
    IN [pos |-> IF k < Len(s) THEN k + 1 ELSE k,
        level |-> n % U8Mod,
        overflow |-> n >= U8Mod]

\* while let Some(c) = characters.peek() { if '\n' { next(); break } push }
ReadTitle(s, p) ==
    LET k == CHOOSE k \in p..Len(s) :
                 /\ k = Len(s) \/ s[k + 1] = NL
                 /\ \A j \in p..(k - 1) : s[j + 1] # NL
    IN [pos |-> IF k < Len(s) THEN k + 1 ELSE k,
        title |-> SubSeq(s, p + 1, k)]

\* parse_heading(characters, line_number)
parse_heading(s, p, line) ==
    LET c == CountLevel(s, p)
        t == ReadTitle(s, c.pos)
        h == HeadingNew(c.level, Utf8(Trim(t.title)))
    IN [pos |-> t.pos, overflow |-> c.overflow, heading |-> h,
        err |-> [message |-> <<"Invalid heading level: ", h.level>>,
                 line |-> line, column |-> 1, at |-> p]]

(***************************************************************************)
(* parse: one action per arm of the state machine, one step per iteration  *)
(***************************************************************************)
Init ==
    /\ input \in Inputs(MaxPieces)
    /\ pos = 0
    /\ state = "Start"
    /\ doc = <<>>
    /\ line_number = 1
    /\ paragraph_text = <<>>
    /\ paragraph_end_candidate_text = <<>>
    /\ result = "running"
    /\ error = <<>>
    /\ i = 0 /\ out = <<>> /\ starts = <<>> /\ istate = "idle"
    /\ api = "parse" /\ arg = <<>> /\ ret = <<>> /\ pushed = <<>>

\* while let Some(next_c) = characters.peek()
Looping == result = "running" /\ pos < Len(input)
next_c == input[pos + 1]
\* if *next_c == '\n' { line_number += 1; }
Peeked == IF next_c = NL THEN line_number + 1 ELSE line_number

StepStart ==
    /\ Looping /\ state = "Start"
    /\ state' = "Paragraph"
    /\ line_number' = Peeked
    /\ UNCHANGED <<input, pos, doc, paragraph_text,
                   paragraph_end_candidate_text, result, error, inline_vars, api_vars>>

StepHeading ==
    /\ Looping /\ state = "Heading"
    /\ LET r == parse_heading(input, pos, Peeked) IN
         /\ pos' = r.pos
         /\ \/ \* `level += 1` overflows u8: a build with overflow checks panics
               /\ r.overflow
               /\ result' = "panic"
               /\ UNCHANGED <<state, doc, line_number, error>>
            \/ \* no overflow, or a build without overflow checks (wraps)
               /\ r.heading.ok
               /\ doc' = Push(doc, HeadingBlock(r.heading, pos, r.pos))
               /\ line_number' = Peeked + 1
               /\ state' = "Paragraph"
               /\ UNCHANGED <<result, error>>
            \/ /\ ~r.heading.ok
               /\ result' = "Err"
               /\ error' = <<r.err>>
               /\ line_number' = Peeked
               /\ UNCHANGED <<state, doc>>
    /\ UNCHANGED <<input, paragraph_text, paragraph_end_candidate_text,
                   inline_vars, api_vars>>

StepParagraph ==
    /\ Looping /\ state = "Paragraph"
    /\ line_number' = Peeked
    /\ IF next_c = HASH
       THEN /\ state' = "Heading"
            /\ UNCHANGED <<pos, paragraph_text, paragraph_end_candidate_text>>
       ELSE /\ pos' = pos + 1
            /\ IF next_c = NL
               THEN /\ paragraph_end_candidate_text' =
                           Append(paragraph_end_candidate_text, pos + 1)
                    /\ state' = "ParagraphEndCandidate"
                    /\ UNCHANGED paragraph_text
               ELSE /\ paragraph_text' = Append(paragraph_text, pos + 1)
                    /\ UNCHANGED <<state, paragraph_end_candidate_text>>
    /\ UNCHANGED <<input, doc, result, error, inline_vars, api_vars>>

\* lines 88-89 without the held text
RejoinWithoutHeld(text, held, p) == Append(text, p)

\* lines 88-89 without the character just read
RejoinWithoutChar(text, held, p) == text \o held

\* lines 88-89: paragraph_text.push_str(&paragraph_end_candidate_text);
\* paragraph_text.push(c), c being the character at input position p
Rejoin(text, held, p) == (text \o held) \o <<p>>

\* the ParagraphEndCandidate arm with `c.is_whitespace()` tested before
\* `c == '\n'`: a line break is whitespace, so it is held and never ends
\* the paragraph
StepParagraphEndCandidateWhitespaceFirst ==
    /\ Looping /\ state = "ParagraphEndCandidate"
    /\ line_number' = Peeked
    /\ pos' = pos + 1
    /\ IF IsWhitespace(next_c)
       THEN /\ paragraph_end_candidate_text' =
                   Append(paragraph_end_candidate_text, pos + 1)
            /\ UNCHANGED <<doc, paragraph_text, state>>
       ELSE /\ paragraph_text' =
                   Rejoin(paragraph_text, paragraph_end_candidate_text, pos + 1)
            /\ paragraph_end_candidate_text' = <<>>
            /\ state' = "Paragraph"
            /\ UNCHANGED doc
    /\ UNCHANGED <<input, result, error, inline_vars, api_vars>>

StepParagraphEndCandidate ==
    /\ Looping /\ state = "ParagraphEndCandidate"
    /\ line_number' = Peeked
    /\ pos' = pos + 1
    /\ IF next_c = NL
       THEN /\ doc' = Push(doc, ParagraphBlock(input, paragraph_text))
            /\ paragraph_text' = <<>>
            /\ paragraph_end_candidate_text' = <<>>
            /\ state' = "Paragraph"
       ELSE IF IsWhitespace(next_c)
       THEN /\ paragraph_end_candidate_text' =
                   Append(paragraph_end_candidate_text, pos + 1)
            /\ UNCHANGED <<doc, paragraph_text, state>>
       ELSE /\ paragraph_text' =
                   Rejoin(paragraph_text, paragraph_end_candidate_text, pos + 1)
            /\ paragraph_end_candidate_text' = <<>>
            /\ state' = "Paragraph"
            /\ UNCHANGED doc
    /\ UNCHANGED <<input, result, error, inline_vars, api_vars>>

\* the end of parse with the trailing paragraph pushed only in state
\* Paragraph
FinishInParagraphOnly ==
    /\ result = "running" /\ pos >= Len(input)
    /\ doc' = IF Len(paragraph_text) > 0 /\ state = "Paragraph"
              THEN Push(doc, ParagraphBlock(input, paragraph_text))
              ELSE doc
    /\ result' = "Ok"
    /\ UNCHANGED <<input, pos, state, line_number, paragraph_text,
                   paragraph_end_candidate_text, error, inline_vars, api_vars>>

\* after the loop: if paragraph_text.len() > 0 { doc.push(..) }  Ok(doc)
Finish ==
    /\ result = "running" /\ pos >= Len(input)
    /\ doc' = IF Len(paragraph_text) > 0
              THEN Push(doc, ParagraphBlock(input, paragraph_text))
              ELSE doc
    /\ result' = "Ok"
    /\ UNCHANGED <<input, pos, state, line_number, paragraph_text,
                   paragraph_end_candidate_text, error, inline_vars, api_vars>>

Next ==
    \/ StepStart
    \/ StepHeading
    \/ StepParagraph
    \/ StepParagraphEndCandidate
    \/ Finish

Spec == Init /\ [][Next]_vars

(***************************************************************************)
(* parse_inlines as a loop: one step per iteration                         *)
(***************************************************************************)
bytes == Utf8(input)

InitInline ==
    /\ input \in InlineInputs(MaxInlinePieces)
    /\ pos = 0
    /\ state = "Start"
    /\ doc = <<>>
    /\ line_number = 1
    /\ paragraph_text = <<>>
    /\ paragraph_end_candidate_text = <<>>
    /\ result = "idle"
    /\ error = <<>>
    /\ i = 0 /\ out = <<>> /\ starts = <<>> /\ istate = "scan"
    /\ api = "parse_inlines" /\ arg = <<>> /\ ret = <<>> /\ pushed = <<>>

InlineLoop ==
    /\ istate = "scan" /\ i < Len(bytes)
    /\ LET r == InlineIter(bytes, i) IN
         IF r.panic
         THEN /\ istate' = "panic"
              /\ UNCHANGED <<i, out, starts>>
         ELSE /\ out' = Append(out, r.elem)
              /\ starts' = Append(starts, i)
              /\ i' = r.next
              /\ UNCHANGED istate
    /\ UNCHANGED <<input, api_vars, parse_vars>>

InlineReturn ==
    /\ istate = "scan" /\ i >= Len(bytes)
    /\ istate' = "done"
    /\ UNCHANGED <<input, api_vars, parse_vars, i, out, starts>>

NextInline == InlineLoop \/ InlineReturn

SpecInline == InitInline /\ [][NextInline]_vars

(***************************************************************************)
(* The constructors and the Document container used on their own           *)
(* (model/heading.rs, model/paragraph.rs, model/block.rs,                  *)
(* model/document.rs), together with parse: the library as a whole         *)
(***************************************************************************)
MaxDocLen == 3                      \* pushes per Document
MaxTextPieces == 2                  \* pieces per text given to a constructor

\* Paragraph::new
ParagraphNew(text) == [panic |-> FALSE, inlines |-> <<InlineText(text)>>]

\* Paragraph::parse
ParagraphParse(raw) ==
    LET r == parse_inlines(raw) IN [panic |-> r.panic, inlines |-> r.out]

\* Block::Heading(h), Block::Paragraph(p)
BlockHeading(h) == [kind |-> "Heading", level |-> h.level, text |-> h.text]
BlockParagraph(p) == [kind |-> "Paragraph", inlines |-> p.inlines]

\* Document::new, len, is_empty, get
DocumentNew == <<>>
DocLen(d) == Len(d)
DocIsEmpty(d) == d = <<>>
DocGet(d, index) == d[index + 1]

\* every u8 is a level Heading::new can be given
Levels == 0..(U8Mod - 1)
HeadingTexts == {<<>>, <<"a">>, <<" ", "a", MULTI>>}
Texts(n) == InlineInputs(n)

\* blocks as build_document makes them
ApiBlocks ==
    {BlockHeading(HeadingNew(l, <<"a">>)) : l \in {MinLevel, MaxLevel}}
    \cup {BlockParagraph(ParagraphNew(<<"a">>)),
          BlockParagraph(ParagraphNew(<<>>)),
          BlockParagraph(ParagraphParse(<<"[", "a", "]", "(", "a", ")">>))}

Idle ==
    /\ input = <<>> /\ pos = 0 /\ state = "Start" /\ line_number = 1
    /\ paragraph_text = <<>> /\ paragraph_end_candidate_text = <<>>
    /\ result = "idle" /\ error = <<>>
    /\ i = 0 /\ out = <<>> /\ starts = <<>> /\ istate = "idle"

InitHeadingNew ==
    /\ Idle
    /\ api = "Heading::new"
    /\ arg \in {<<l, t>> : l \in Levels, t \in HeadingTexts}
    /\ ret = <<>> /\ doc = <<>> /\ pushed = <<>>

InitParagraph ==
    /\ Idle
    /\ api \in {"Paragraph::new", "Paragraph::parse"}
    /\ arg \in {<<t>> : t \in Texts(MaxTextPieces)}
    /\ ret = <<>> /\ doc = <<>> /\ pushed = <<>>

InitDocument ==
    /\ Idle
    /\ api = "Document"
    /\ arg = <<>> /\ ret = <<>>
    /\ doc = DocumentNew /\ pushed = <<>>

CallHeadingNew ==
    /\ api = "Heading::new" /\ ret = <<>>
    /\ ret' = <<HeadingNew(arg[1], Utf8(arg[2]))>>
    /\ UNCHANGED <<input, parse_vars, inline_vars, api, arg, pushed>>

CallParagraphNew ==
    /\ api = "Paragraph::new" /\ ret = <<>>
    /\ ret' = <<ParagraphNew(Utf8(arg[1]))>>
    /\ UNCHANGED <<input, parse_vars, inline_vars, api, arg, pushed>>

CallParagraphParse ==
    /\ api = "Paragraph::parse" /\ ret = <<>>
    /\ ret' = <<ParagraphParse(Utf8(arg[1]))>>
    /\ UNCHANGED <<input, parse_vars, inline_vars, api, arg, pushed>>

DocumentPush ==
    /\ api = "Document" /\ Len(pushed) < MaxDocLen
    /\ \E b \in ApiBlocks :
          /\ doc' = Push(doc, b)
          /\ pushed' = Append(pushed, b)
    /\ UNCHANGED <<input, pos, state, line_number, paragraph_text,
                   paragraph_end_candidate_text, result, error, inline_vars,
                   api, arg, ret>>

InitLib == Init \/ InitHeadingNew \/ InitParagraph \/ InitDocument

NextLib ==
    \/ Next
    \/ CallHeadingNew
    \/ CallParagraphNew
    \/ CallParagraphParse
    \/ DocumentPush

SpecLib == InitLib /\ [][NextLib]_vars

TypeOK ==
    /\ state \in {"Start", "Heading", "Paragraph", "ParagraphEndCandidate"}
    /\ result \in {"idle", "running", "Ok", "Err", "panic"}
    /\ istate \in {"idle", "scan", "done", "panic"}
    /\ pos \in 0..Len(input)
    /\ i \in 0..Len(bytes)

(***************************************************************************)
(* Properties                                                              *)
(***************************************************************************)
Paragraphs == {k \in DOMAIN doc : doc[k].kind = "Paragraph"}
Headings == {k \in DOMAIN doc : doc[k].kind = "Heading"}

\* a block has source text unless it is a paragraph of no characters
HasSource(b) == b.kind = "Heading" \/ b.src # <<>>
\* input position (1-based) at which the source text of a block begins
BlockStart(b) == IF b.kind = "Heading" THEN b.src.start + 1 ELSE b.src[1]

\* length of the '#' run that begins right after cursor position p
RunLen(s, p) == ScanWhile(s, p, {HASH}) - p
\* number of line breaks among the first p characters
BreaksBefore(s, p) == Cardinality({k \in 1..p : s[k] = NL})
NoHash(s) == \A k \in DOMAIN s : s[k] # HASH

\* C1: after a successful parse the blocks are in reading order: a block
\* whose source text begins earlier in the input has the smaller index, so
\* paragraph text accumulated before a heading never follows its block.
C1_ReadingOrder ==
    result = "Ok" =>
        \A j \in DOMAIN doc : \A k \in DOMAIN doc :
            (/\ HasSource(doc[j]) /\ HasSource(doc[k])
             /\ BlockStart(doc[j]) < BlockStart(doc[k])) => j < k

\* C2: every Paragraph block appended by parse has inlines equal to
\* parse_inlines of the paragraph's accumulated text (stated for the
\* paragraphs of non-empty text), so a well-formed [label](url) in the text
\* is held as a Link and not inside one Text.
C2_ParagraphInlinesScanned ==
    \A k \in Paragraphs :
        doc[k].src # <<>> =>
            LET r == parse_inlines(Utf8(CharsAt(input, doc[k].src)))
            IN ~r.panic /\ doc[k].inlines = r.out

\* C3: a '#' run of length n that starts a heading gives a Heading of level
\* n when 1 <= n <= 6 and an error "Invalid heading level: n" when n >= 7,
\* for every n; the level counter never overflows or wraps.
C3_LevelIsRunLength ==
    /\ result # "panic"
    /\ \A k \in Headings :
           LET n == RunLen(input, doc[k].src.start)
           IN n >= MinLevel /\ n <= MaxLevel /\ doc[k].level = n
    /\ result = "Err" =>
           LET n == RunLen(input, error[1].at)
           IN n > MaxLevel /\ error[1].message = <<"Invalid heading level: ", n>>

\* the characters r of a heading line after the '#' run that begins after
\* cursor position p: up to the next line break or the end of the input
RestEnd(s, p) == ScanWhile(s, p + RunLen(s, p), {c \in {s[k] : k \in DOMAIN s} : c # NL})
Rest(s, p) == SubSeq(s, p + RunLen(s, p) + 1, RestEnd(s, p))

\* C4: the text of a Heading is the rest r of its line, trimmed, and the
\* heading recognizer consumes exactly the '#' run, r and the terminating
\* line break if present: no character of r is dropped and no character of
\* the following line is consumed.
C4_HeadingTextAndExtent ==
    \A k \in Headings :
        LET p == doc[k].src.start
            e == RestEnd(input, p)
        IN /\ doc[k].text = Utf8(Trim(Rest(input, p)))
           /\ doc[k].src.stop = IF e < Len(input) THEN e + 1 ELSE e

\* C5: when parse fails, the error's line is 1 plus the number of line
\* breaks that precede the invalid '#' run, and its column is 1.
C5_ErrorLine ==
    result = "Err" =>
        /\ error[1].line = 1 + BreaksBefore(input, error[1].at)
        /\ error[1].column = 1

NonWs(c) == ~IsWhitespace(c)
Range(f) == {f[k] : k \in DOMAIN f}

\* the characters at input positions p..q are adjacent in one Paragraph
Joined(p, q) ==
    \E k \in Paragraphs : \E m \in DOMAIN doc[k].src :
        /\ m + (q - p) <= Len(doc[k].src)
        /\ \A d \in 0..(q - p) : doc[k].src[m + d] = p + d
\* the characters at positions p and q are in two Paragraphs, in this order
Split(p, q) ==
    \E j \in Paragraphs : \E k \in Paragraphs :
        j < k /\ p \in Range(doc[j].src) /\ q \in Range(doc[k].src)
BlankLineBetween(s, p, q) ==
    \E r \in (p + 1)..(q - 2) : s[r] = NL /\ s[r + 1] = NL

\* C7: in an input without '#', two non-whitespace characters with two
\* consecutive line breaks between them end up in different Paragraphs, in
\* input order; two non-whitespace characters separated by exactly one line
\* break end up, with the line break, in the same Paragraph.
C7_BlankLineSeparates ==
    (result = "Ok" /\ NoHash(input)) =>
        \A p \in DOMAIN input : \A q \in DOMAIN input :
            (p < q /\ NonWs(input[p]) /\ NonWs(input[q])) =>
                /\ BlankLineBetween(input, p, q) => Split(p, q)
                /\ (q = p + 2 /\ input[p + 1] = NL) => Joined(p, q)

\* text, exactly two line breaks, text
C7_Witness ==
    /\ result = "Ok" /\ NoHash(input)
    /\ \E p \in DOMAIN input :
           /\ p + 3 <= Len(input)
           /\ NonWs(input[p]) /\ input[p + 1] = NL
           /\ input[p + 2] = NL /\ NonWs(input[p + 3])
           /\ Split(p, p + 3)

\* C8: when the input is exhausted with a non-empty paragraph text buffer,
\* parse appends exactly one Paragraph holding that text as the last block,
\* in state Paragraph as well as in ParagraphEndCandidate; with an empty
\* buffer it appends nothing.
C8_TrailingParagraph ==
    [][(result = "running" /\ result' = "Ok") =>
          IF paragraph_text # <<>>
          THEN /\ Len(doc') = Len(doc) + 1
               /\ SubSeq(doc', 1, Len(doc)) = doc
               /\ doc'[Len(doc')].kind = "Paragraph"
               /\ doc'[Len(doc')].inlines =
                      <<InlineText(Utf8(CharsAt(input, paragraph_text)))>>
          ELSE doc' = doc]_vars

\* the input ended after a single line break that follows paragraph text
C8_Witness ==
    /\ result = "Ok"
    /\ state = "ParagraphEndCandidate"
    /\ paragraph_text # <<>>
    /\ doc[Len(doc)].src = paragraph_text

\* C9: parse_inlines never fails: every index and slice it takes is within
\* the input and on a character boundary.
C9_InlineNeverPanics == istate # "panic"

\* end of the span of the k-th emitted inline: the start of the next one,
\* or the scan position
SpanEnd(k) == IF k < Len(starts) THEN starts[k + 1] ELSE i
Span(k) == Slice(bytes, starts[k], SpanEnd(k))
Label(e) == IF e.kind = "Link" THEN e.text[1].text ELSE e.alt[1].text

\* the span of a Link or Image: opener, label, "](", content, ")"
IsWrapped(sp, e) ==
    LET o == IF e.kind = "Image" THEN <<"!", "[">> ELSE <<"[">>
        n == Len(o) + Len(Label(e))
    IN /\ Len(sp) >= n + 3
       /\ SubSeq(sp, 1, n) = o \o Label(e)
       /\ sp[n + 1] = "]" /\ sp[n + 2] = "("
       /\ sp[Len(sp)] = ")"
       /\ \A k \in (n + 3)..(Len(sp) - 1) : sp[k] # ")"
       /\ \A k \in DOMAIN e.url : e.url[k] = sp[n + 2 + k]

RECURSIVE ConcatTexts(_)
ConcatTexts(es) ==
    IF es = <<>> THEN <<>> ELSE Head(es).text \o ConcatTexts(Tail(es))

\* a complete pattern [..](..) begins at byte index k
PatternAt(b, k) ==
    /\ b[k + 1] = "["
    /\ \E c \in (k + 1)..(Len(b) - 1) :
          /\ b[c + 1] = "]"
          /\ \A j \in (k + 1)..(c - 1) : b[j + 1] # "]"
          /\ c + 1 < Len(b) /\ b[c + 2] = "("
          /\ \E d \in (c + 2)..(Len(b) - 1) : b[d + 1] = ")"

OpenerAt(b, k) ==
    \/ b[k + 1] = "["
    \/ b[k + 1] = "!" /\ k + 1 < Len(b) /\ b[k + 2] = "["

BracketAt(b, k) == IF b[k + 1] = "!" THEN k + 1 ELSE k

\* index of the first byte of `set` at or after `from`, Len(b) when none
First(b, from, set) ==
    CHOOSE j \in from..Len(b) :
        /\ j = Len(b) \/ b[j + 1] \in set
        /\ \A m \in from..(j - 1) : b[m + 1] \notin set

CloseBracket(b, k) == First(b, BracketAt(b, k) + 1, {"]"})
CloseParen(b, k) == First(b, CloseBracket(b, k) + 2, {")"})

\* all delimiters of [label](content) are present for the opener at k
FullAt(b, k) ==
    /\ CloseBracket(b, k) + 1 < Len(b)
    /\ b[CloseBracket(b, k) + 2] = "("
    /\ CloseParen(b, k) < Len(b)

ContentAt(b, k) == Slice(b, CloseBracket(b, k) + 2, CloseParen(b, k))

\* C11: an element emitted at a scan position that holds an opener is a
\* Link (for '[') or an Image (for '![') exactly when a ']' follows the
\* opening bracket, the first such ']' is immediately followed by '(' and a
\* ')' follows; its label is the text between the brackets and its
\* destination is taken from the text between '(' and the first ')', after
\* which the scan resumes. Otherwise the element is one Text running from
\* the opener to the next '!' or '[' or to the end of the input. A Link or
\* Image starts only at an opener, and the iteration at an opener always
\* emits its element.
C11_OpenerMatchesFullPattern ==
    /\ istate = "panic" => ~OpenerAt(bytes, i)
    /\ \A k \in DOMAIN out :
        LET s == starts[k]
            e == out[k]
        IN IF OpenerAt(bytes, s)
           THEN IF FullAt(bytes, s)
                THEN /\ e.kind = (IF bytes[s + 1] = "!" THEN "Image" ELSE "Link")
                     /\ Label(e) = Slice(bytes, BracketAt(bytes, s) + 1,
                                         CloseBracket(bytes, s))
                     /\ SpanEnd(k) = CloseParen(bytes, s) + 1
                     /\ Len(e.url) <= Len(ContentAt(bytes, s))
                     /\ e.url = SubSeq(ContentAt(bytes, s), 1, Len(e.url))
                     /\ (\A j \in DOMAIN ContentAt(bytes, s) :
                             ContentAt(bytes, s)[j] # " ")
                            => e.url = ContentAt(bytes, s)
                ELSE /\ e.kind = "Text"
                     /\ SpanEnd(k) = First(bytes, s + 1, {"!", "["})
                     /\ e.text = Slice(bytes, s, SpanEnd(k))
           ELSE e.kind = "Text"

\* a finished scan that emitted a Link or Image at a full pattern and a Text
\* at an opener whose delimiters are incomplete
C11_Witness ==
    /\ istate = "done"
    /\ \E k \in DOMAIN out :
           /\ out[k].kind \in {"Link", "Image"}
           /\ FullAt(bytes, starts[k])
    /\ \E k \in DOMAIN out :
           /\ out[k].kind = "Text"
           /\ OpenerAt(bytes, starts[k])
           /\ ~FullAt(bytes, starts[k])

\* the parenthesized content of the k-th emitted element, a Link or Image
Content(k) == ContentAt(bytes, starts[k])
HasSpace(c) == \E j \in DOMAIN c : c[j] = " "
FirstSpace(c) == CHOOSE j \in DOMAIN c :
                     c[j] = " " /\ \A m \in 1..(j - 1) : c[m] # " "
BeforeSpace(c) == SubSeq(c, 1, FirstSpace(c) - 1)
\* what follows the first space
Remainder(c) == SubSeq(c, FirstSpace(c) + 1, Len(c))
Wrapped(r) == Len(r) >= 2 /\ r[1] = "\"" /\ r[Len(r)] = "\""
Unquote(r) == SubSeq(r, 2, Len(r) - 1)
LinksOut == {k \in DOMAIN out : out[k].kind \in {"Link", "Image"}}

\* C12 as stated: the url is the content before its first space and the
\* title is present exactly when the remainder after that space is wrapped
\* in a pair of double quotes, the title being the remainder without the two
\* quotes; without a space the url is the whole content and there is no
\* title.
C12_TitleIffRemainderWrapped ==
    \A k \in LinksOut :
        IF HasSpace(Content(k))
        THEN /\ out[k].url = BeforeSpace(Content(k))
             /\ out[k].title # None <=> Wrapped(Remainder(Content(k)))
             /\ out[k].title # None =>
                    out[k].title = Some(Unquote(Remainder(Content(k))))
        ELSE out[k].url = Content(k) /\ out[k].title = None

\* C12 amended: the url is the content before its first space and the title
\* is present exactly when the remainder after that space, with its leading
\* whitespace skipped, is wrapped in a pair of double quotes, the title
\* being that trimmed remainder without the two quotes; without a space the
\* url is the whole content and there is no title.
C12_TitleIffTrimmedRemainderWrapped ==
    \A k \in LinksOut :
        IF HasSpace(Content(k))
        THEN /\ out[k].url = BeforeSpace(Content(k))
             /\ out[k].title # None <=>
                    Wrapped(TrimStart(Remainder(Content(k))))
             /\ out[k].title # None =>
                    out[k].title =
                        Some(Unquote(TrimStart(Remainder(Content(k)))))
        ELSE out[k].url = Content(k) /\ out[k].title = None

\* a Link whose title follows two spaces: the remainder after the first
\* space starts with a space, not with a quote
C12_Witness ==
    /\ istate = "done"
    /\ \E k \in LinksOut :
           /\ HasSpace(Content(k))
           /\ out[k].title = Some(<<"a">>)
           /\ ~Wrapped(Remainder(Content(k)))

\* C13 as stated: when the content has a space and the remainder after the
\* first space is not wrapped in double quotes, no title is recorded and the
\* whole content, including the text after the space, is the url.
C13_UnquotedRemainderKeptInUrl ==
    \A k \in LinksOut :
        (HasSpace(Content(k)) /\ ~Wrapped(Remainder(Content(k)))) =>
            /\ out[k].title = None
            /\ out[k].url = Content(k)

\* C13 amended: when the content has a space and the remainder after the
\* first space, with its leading whitespace skipped, is not wrapped in
\* double quotes, no title is recorded and the url is only the part of the
\* content before the first space: the text after it is discarded.
C13_UnquotedRemainderDiscarded ==
    \A k \in LinksOut :
        (HasSpace(Content(k)) /\ ~Wrapped(TrimStart(Remainder(Content(k))))) =>
            /\ out[k].title = None
            /\ out[k].url = BeforeSpace(Content(k))
            /\ Len(out[k].url) < Len(Content(k))

\* a Link whose content has non-blank, unquoted text after its first space
C13_Witness ==
    /\ istate = "done"
    /\ \E k \in LinksOut :
           /\ HasSpace(Content(k))
           /\ ~Wrapped(TrimStart(Remainder(Content(k))))
           /\ TrimStart(Remainder(Content(k))) # <<>>
           /\ out[k].title = None

\* C14: Heading::new(level, text) returns Ok with a Heading holding exactly
\* that level and text if and only if 1 <= level <= 6; for every other level
\* it returns the error carrying the unmodified level, never a clamped
\* Heading. Every Heading block of a Document built by parse has a level in
\* 1..6.
C14_HeadingLevelValidated ==
    /\ (api = "Heading::new" /\ ret # <<>>) =>
           /\ ret[1].ok <=> arg[1] \in 1..6
           /\ ret[1].level = arg[1]
           /\ ret[1].ok => ret[1].text = Utf8(arg[2])
    /\ api = "parse" =>
           \A k \in DOMAIN doc :
               doc[k].kind = "Heading" => doc[k].level \in 1..6

\* Heading::new was called with level 7 and returned the error for 7
C14_Witness ==
    /\ api = "Heading::new" /\ ret # <<>>
    /\ arg[1] = 7
    /\ ~ret[1].ok /\ ret[1].level = 7

\* C15: a Document is created empty and is append-only: after any sequence
\* of pushes len() is the number of pushes, is_empty() holds exactly when
\* len() is 0 and get(i) is the i-th pushed block; every step, of a push as
\* of a parse, leaves the blocks already present unchanged and in order and
\* adds at most one block at the end, so the length never decreases.
C15_DocumentAppendOnly ==
    /\ [](api = "Document" =>
             /\ DocLen(doc) = Len(pushed)
             /\ DocIsEmpty(doc) <=> DocLen(doc) = 0
             /\ \A idx \in 0..(DocLen(doc) - 1) :
                    DocGet(doc, idx) = pushed[idx + 1])
    /\ [][/\ DocLen(doc') >= DocLen(doc)
          /\ DocLen(doc') <= DocLen(doc) + 1
          /\ SubSeq(doc', 1, Len(doc)) = doc
          /\ pushed' # pushed =>
                 /\ DocLen(doc') = DocLen(doc) + 1
                 /\ DocGet(doc', DocLen(doc)) = pushed'[Len(pushed')]]_vars

\* three pushes of blocks that are not all the same
C15_Witness ==
    /\ api = "Document"
    /\ DocLen(doc) = 3
    /\ DocGet(doc, 0) # DocGet(doc, 1)
    /\ DocGet(doc, 1) # DocGet(doc, 2)

\* C16: every finalized Paragraph has at least one inline element: every
\* Paragraph block appended by parse or pushed to a Document, and every
\* Paragraph returned by Paragraph::new(text) and Paragraph::parse(raw), for
\* every input including the empty string.
C16_ParagraphHasInline ==
    /\ \A k \in DOMAIN doc :
           doc[k].kind = "Paragraph" => Len(doc[k].inlines) >= 1
    /\ (api \in {"Paragraph::new", "Paragraph::parse"} /\ ret # <<>>) =>
           (~ret[1].panic => Len(ret[1].inlines) >= 1)

\* the text of all Paragraph blocks of d, concatenated in Document order
RECURSIVE DocText(_)
DocText(d) ==
    IF d = <<>> THEN <<>>
    ELSE (IF Head(d).kind = "Paragraph"
          THEN ConcatTexts(Head(d).inlines) ELSE <<>>) \o DocText(Tail(d))

\* C17: for an input without '#', parse loses, duplicates and reorders no
\* non-whitespace character: the text of all Paragraph blocks concatenated
\* in Document order, with all whitespace deleted, is the input with all
\* whitespace deleted.
C17_NonWhitespacePreserved ==
    (api = "parse" /\ result = "Ok" /\ NoHash(input)) =>
        SelectSeq(DocText(doc), NonWs) = SelectSeq(Utf8(input), NonWs)

\* two paragraphs, one of them continued over a single line break, and
\* whitespace of the input that is in no paragraph
C17_Witness ==
    /\ api = "parse" /\ result = "Ok" /\ NoHash(input)
    /\ \E j \in Paragraphs : \E k \in Paragraphs :
           /\ j < k
           /\ \E m \in DOMAIN doc[j].src : NonWs(input[doc[j].src[m]])
           /\ \E m \in DOMAIN doc[k].src : NonWs(input[doc[k].src[m]])
    /\ \E k \in Paragraphs : \E m \in DOMAIN doc[k].src :
           input[doc[k].src[m]] = NL
    /\ Len(DocText(doc)) < Len(Utf8(input))

\* C18: in state ParagraphEndCandidate one line break is stashed and only
\* whitespace is held. Reading whitespace other than a line break adds it
\* to the holding buffer and keeps the state; reading a line break appends
\* the Paragraph of the buffered text, without the held characters, also
\* when whitespace lies between the two line breaks, and clears both
\* buffers; reading any other character appends the held characters
\* verbatim and then that character to the paragraph text, empties the
\* holding buffer and returns to state Paragraph.
C18_EndCandidateStep ==
    [][(Looping /\ state = "ParagraphEndCandidate") =>
          LET c == input[pos + 1]
              text == CharsAt(input, paragraph_text)
              held == CharsAt(input, paragraph_end_candidate_text)
              text_after == CharsAt(input, paragraph_text')
              held_after == CharsAt(input, paragraph_end_candidate_text')
          IN /\ held # <<>> /\ held[1] = NL
             /\ \A k \in DOMAIN held : IsWhitespace(held[k])
             /\ pos' = pos + 1
             /\ IF c = NL
                THEN /\ Len(doc') = Len(doc) + 1
                     /\ SubSeq(doc', 1, Len(doc)) = doc
                     /\ doc'[Len(doc')].kind = "Paragraph"
                     /\ doc'[Len(doc')].inlines = <<InlineText(Utf8(text))>>
                     /\ text_after = <<>> /\ held_after = <<>>
                     /\ state' = "Paragraph"
                ELSE IF IsWhitespace(c)
                THEN /\ held_after = Append(held, c)
                     /\ text_after = text
                     /\ state' = "ParagraphEndCandidate"
                     /\ doc' = doc
                ELSE /\ text_after = (text \o held) \o <<c>>
                     /\ held_after = <<>>
                     /\ state' = "Paragraph"
                     /\ doc' = doc]_vars

\* a paragraph ended by two line breaks with a space between them
C18_Witness ==
    /\ api = "parse" /\ result = "running" /\ state = "Paragraph"
    /\ pos >= 4
    /\ input[pos] = NL /\ input[pos - 1] = " " /\ input[pos - 2] = NL
    /\ paragraph_text = <<>> /\ paragraph_end_candidate_text = <<>>
    /\ doc # <<>>
    /\ doc[Len(doc)].kind = "Paragraph"
    /\ doc[Len(doc)].src # <<>>
    /\ doc[Len(doc)].src[Len(doc[Len(doc)].src)] = pos - 3

\* C19: whenever the Heading Recognizer is invoked the next unconsumed
\* character is '#' (state Heading is entered only on peeking '#', which is
\* not consumed), so the counted run length is at least 1 and parse never
\* reports "Invalid heading level: 0".
C19_HeadingStartsOnHash ==
    /\ (Looping /\ state = "Heading") => next_c = HASH
    /\ result = "Err" => error[1].message # <<"Invalid heading level: ", 0>>

\* C20: parse_inlines terminates on every finite input: every iteration of
\* its loop strictly increases the scan position i, i never exceeds the
\* length of the input, and the loop ends with i equal to that length.
C20_ScanAdvances ==
    /\ [](/\ i <= Len(bytes)
          /\ istate = "done" => i = Len(bytes))
    /\ [][(istate = "scan" /\ i < Len(bytes)) => i' > i]_vars

\* C21: the Block Scanner terminates on every finite input: only the
\* transitions Start -> Paragraph and Paragraph -> Heading leave the cursor
\* where it is and every other iteration consumes at least one character,
\* so the iteration after Paragraph -> Heading consumes, the cursor never
\* passes the end of the input, and a parse that has stopped has returned
\* Ok on exhausted input or Err on an invalid heading.
C21_ScannerTerminates ==
    /\ [](/\ pos <= Len(input)
          /\ (api = "parse" /\ result # "running") =>
                 \/ result = "Ok" /\ pos = Len(input)
                 \/ result = "Err" /\ error # <<>>)
    /\ [][Looping =>
            /\ pos' >= pos
            /\ pos' = pos =>
                   \/ state = "Start" /\ state' = "Paragraph"
                   \/ state = "Paragraph" /\ state' = "Heading"
            /\ state = "Heading" => pos' > pos]_vars

\* C22: parse never appends a Paragraph whose accumulated text is the empty
\* string: for every input, also one made only of line breaks or holding
\* three or more consecutive line breaks, every Paragraph block of the
\* Document has non-empty text, and the empty input yields an empty
\* Document.
C22_NoEmptyParagraph ==
    api = "parse" =>
        /\ \A k \in Paragraphs : ConcatTexts(doc[k].inlines) # <<>>
        /\ (result = "Ok" /\ input = <<>>) => doc = <<>>
====
